---------------------------- MODULE Spec2Model ----------------------------
(* Model of the news collector's two revisions:                            *)
(*   "root"     : src/collect_news.py, lines 1-204 (what follows them in   *)
(*                the file is prose, not code)                             *)
(*   "workflow" : src/.github/workflows/collect_news.py                    *)
(* A run of main() is the pipeline load -> fetch -> filter -> format ->    *)
(* push.  Text is a sequence of characters, one string token per           *)
(* character; a non-ASCII character of the source is written "U+<code>".   *)
EXTENDS Integers, Sequences, FiniteSets, TLC

VARIABLES
    variant,        \* which revision runs: "root" or "workflow"
    pc,             \* position of main()
    file,           \* what news_sources.json holds for load_config()
    config,         \* main's config (the loaded JSON object)
    idx,            \* position of the for-loop over config['rss_feeds']
    fetched,        \* per visited source: what the feed held and what came back
    all_news,       \* main's all_news
    success_count,  \* main's success_count (root only)
    filter_out,     \* what filter_news returned
    filtered_news,  \* main's filtered_news, the list handed to the formatter
    fmt,            \* the formatter call: timestamp, API key and API response
    report,         \* main's report
    env,            \* the environment variables main has read
    pushes,         \* the push calls made, in order
    stages          \* the stages of main() entered so far

vars == << variant, pc, file, config, idx, fetched, all_news, success_count,
           filter_out, filtered_news, fmt, report, env, pushes, stages >>

-----------------------------------------------------------------------------
(* Bounds of the model.                                                    *)

MaxSources == 2
MaxEntries == 6
LongLen == 1100
LongSummaryLen == 230
MaxListLen == 3
BigListLen == 22

(* Program constants.                                                      *)

CapRoot == 3
CapWorkflow == 5
SummaryLimitRoot == 100
SummaryLimitWorkflow == 200
PassThroughCap == 20
FilterCap == 15
FormatCap == 10
FallbackCount == 10
AnalyzeCap == 15
BarkLimitRoot == 1000
BarkLimitWorkflow == 500

-----------------------------------------------------------------------------
(* Python helpers.                                                         *)

Min(a, b) == IF a < b THEN a ELSE b

\* s[:n]
Take(s, n) == SubSeq(s, 1, Min(n, Len(s)))

\* d.get(key, default)
Get(d, key, default) == IF key \in DOMAIN d THEN d[key] ELSE default

\* kw in text, for strings: a contiguous, case-sensitive substring
Contains(text, kw) ==
    \E i \in 0..(Len(text) - Len(kw)) : SubSeq(text, i + 1, i + Len(kw)) = kw

\* any(kw in text for kw in kws)
AnyIn(kws, text) == \E j \in 1..Len(kws) : Contains(text, kws[j])

DigitChars == << "0", "1", "2", "3", "4", "5", "6", "7", "8", "9" >>

\* f"{n}" for a natural number
RECURSIVE Digits(_)
Digits(n) ==
    IF n < 10 THEN << DigitChars[n + 1] >>
    ELSE Digits(n \div 10) \o << DigitChars[(n % 10) + 1] >>

\* a run of n copies of the character c
Fill(n, c) == [i \in 1..n |-> c]

RECURSIVE Flatten(_)
Flatten(ss) == IF ss = << >> THEN << >> ELSE Head(ss) \o Flatten(Tail(ss))

SafeChars ==
    { "a", "b", "c", "d", "l", "s", "u", "w", "z", "0", "1", "2", "3", "4",
      "5", "6", "7", "8", "9", ".", "-", "_", "~", "/" }

\* requests.utils.quote of one character: its UTF-8 bytes, percent-escaped
QuoteChar(c) ==
    CASE c \in SafeChars -> << c >>
       [] c = "U+1F4CA" -> <<"%", "F", "0", "%", "9", "F", "%", "9", "3", "%", "8", "A">>
       [] c = "U+6295" -> <<"%", "E", "6", "%", "8", "A", "%", "9", "5">>
       [] c = "U+8D44" -> <<"%", "E", "8", "%", "B", "5", "%", "8", "4">>
       [] c = "U+5FEB" -> <<"%", "E", "5", "%", "B", "F", "%", "A", "B">>
       [] c = "U+8BAF" -> <<"%", "E", "8", "%", "A", "E", "%", "A", "F">>
       [] c = "U+6682" -> <<"%", "E", "6", "%", "9", "A", "%", "8", "2">>
       [] c = "U+65E0" -> <<"%", "E", "6", "%", "9", "7", "%", "A", "0">>
       [] c = "U+7B26" -> <<"%", "E", "7", "%", "A", "C", "%", "A", "6">>
       [] c = "U+5408" -> <<"%", "E", "5", "%", "9", "0", "%", "8", "8">>
       [] c = "U+6761" -> <<"%", "E", "6", "%", "9", "D", "%", "A", "1">>
       [] c = "U+4EF6" -> <<"%", "E", "4", "%", "B", "B", "%", "B", "6">>
       [] c = "U+7684" -> <<"%", "E", "7", "%", "9", "A", "%", "8", "4">>
       [] c = "U+65B0" -> <<"%", "E", "6", "%", "9", "6", "%", "B", "0">>
       [] c = "U+95FB" -> <<"%", "E", "9", "%", "9", "7", "%", "B", "B">>
       [] c = "U+5171" -> <<"%", "E", "5", "%", "8", "5", "%", "B", "1">>
       [] c = "U+76F8" -> <<"%", "E", "7", "%", "9", "B", "%", "B", "8">>
       [] c = "U+5173" -> <<"%", "E", "5", "%", "8", "5", "%", "B", "3">>
       [] c = "U+1F517" -> <<"%", "F", "0", "%", "9", "F", "%", "9", "4", "%", "9", "7">>
       [] c = " " -> <<"%", "2", "0">>
       [] c = "(" -> <<"%", "2", "8">>
       [] c = ")" -> <<"%", "2", "9">>
       [] c = "\n" -> <<"%", "0", "A">>
       [] c = ":" -> <<"%", "3", "A">>
       [] OTHER -> << "%", "3", "F" >>

\* the characters lo..hi of s, each quoted, by halves
RECURSIVE QuoteRange(_, _, _)
QuoteRange(s, lo, hi) ==
    IF lo > hi THEN << >>
    ELSE IF lo = hi THEN QuoteChar(s[lo])
    ELSE LET mid == (lo + hi) \div 2
         IN  QuoteRange(s, lo, mid) \o QuoteRange(s, mid + 1, hi)

\* requests.utils.quote(s)
Quote(s) == QuoteRange(s, 1, Len(s))

-----------------------------------------------------------------------------
(* Text constants of the source.                                           *)

\* the push title
TitleText == <<"U+1F4CA", " ", "U+6295", "U+8D44", "U+5FEB", "U+8BAF">>

\* the report header up to the timestamp
HeaderOpen == <<"U+1F4CA", " ", "U+6295", "U+8D44", "U+5FEB", "U+8BAF", " ", "(">>

NoNewsText ==
    <<"U+6682", "U+65E0", "U+7B26", "U+5408", "U+6761", "U+4EF6", "U+7684",
      "U+65B0", "U+95FB">>

TotalOpen == <<"U+5171", " ">>

TotalClose == <<" ", "U+6761", "U+76F8", "U+5173", "U+65B0", "U+95FB">>

LinkMark == <<" ", " ", " ", "U+1F517", " ">>

\* datetime.now().strftime('%m-%d %H:%M'): the instants a run may format at
Clock ==
    { <<"1", "1", "-", "0", "3", " ", "0", "8", ":", "0", "0">>,
      <<"1", "1", "-", "0", "3", " ", "2", "0", ":", "3", "0">> }

Header(now) == HeaderOpen \o now \o << ")", "\n", "\n" >>

-----------------------------------------------------------------------------
(* fetch_rss_news.  A feed is what feedparser.parse yields for a source in *)
(* this run: [raises |-> TRUE] when the call throws, else its entries; an  *)
(* entry is a dict that may lack any of title, link, summary, published.   *)

PerSourceCap(v) == IF v = "root" THEN CapRoot ELSE CapWorkflow

SummaryLimit(v) == IF v = "root" THEN SummaryLimitRoot ELSE SummaryLimitWorkflow

\* the dict appended for one entry; entry.title is read unguarded
EntryToItem(v, e) ==
    [ title     |-> e["title"],
      link      |-> Get(e, "link", << >>),
      summary   |-> Take(Get(e, "summary", << >>), SummaryLimit(v)),
      published |-> Get(e, "published", << >>) ]

\* the slice forgotten: every entry of the feed is read
CappedEntries_All(v, feed) == feed.entries

\* feed.entries[:3] (root) or feed.entries[:5] (workflow)
CappedEntries(v, feed) == Take(feed.entries, PerSourceCap(v))

\* try: ... return news / except Exception: return []
\* a missing title raises AttributeError inside the try, and the except
\* branch drops the items already appended
fetch_rss_news(v, feed) ==
    IF feed.raises THEN << >>
    ELSE LET es == CappedEntries(v, feed)
         IN  IF \E i \in 1..Len(es) : "title" \notin DOMAIN es[i]
             THEN << >>
             ELSE [i \in 1..Len(es) |-> EntryToItem(v, es[i])]

-----------------------------------------------------------------------------
(* filter_news.  The config keys are written in ASCII: "industries" and    *)
(* "keywords" are the two include lists, "blocked" is the block list.      *)

EmptyDict == [k \in {} |-> << >>]

\* filters.get(<industries>, []) + filters.get(<keywords>, [])
Keywords(cfg) ==
    LET filters == Get(cfg, "filters", EmptyDict)
    IN  Get(filters, "industries", << >>) \o Get(filters, "keywords", << >>)

\* filters.get(<blocked>, [])
Blocked(cfg) == Get(Get(cfg, "filters", EmptyDict), "blocked", << >>)

\* text = news['title'] + news.get('summary', '')
ItemText(news) == news.title \o Get(news, "summary", << >>)

\* the block list forgotten
Passes_IgnoreBlock(news, keywords, blocked) == AnyIn(keywords, ItemText(news))

\* if any(kw in text ...): if not any(bw in text ...): filtered.append(news)
Passes(news, keywords, blocked) ==
    /\ AnyIn(keywords, ItemText(news))
    /\ ~ AnyIn(blocked, ItemText(news))

\* the keyword loop
KeywordFilter(news_list, keywords, blocked) ==
    SelectSeq(news_list, LAMBDA n : Passes(n, keywords, blocked))

\* the dedup loop: seen is the set of titles already kept
RECURSIVE Unique(_, _)
Unique(list, seen) ==
    IF list = << >> THEN << >>
    ELSE LET news == Head(list)
         IN  IF news.title \in seen
             THEN Unique(Tail(list), seen)
             ELSE << news >> \o Unique(Tail(list), seen \cup { news.title })

\* src/collect_news.py: early return of news_list[:20] when no keyword is
\* set, else keyword filter, dedup, [:15]
filter_news_root(news_list, cfg) ==
    IF Keywords(cfg) = << >>
    THEN Take(news_list, PassThroughCap)
    ELSE Take(Unique(KeywordFilter(news_list, Keywords(cfg), Blocked(cfg)), {}),
              FilterCap)

\* src/.github/workflows/collect_news.py: pass-through or keyword filter,
\* then dedup; the whole list is returned
filter_news_workflow(news_list, cfg) ==
    Unique(IF Keywords(cfg) = << >>
           THEN news_list
           ELSE KeywordFilter(news_list, Keywords(cfg), Blocked(cfg)),
           {})

filter_news(v, news_list, cfg) ==
    IF v = "root" THEN filter_news_root(news_list, cfg)
    ELSE filter_news_workflow(news_list, cfg)

-----------------------------------------------------------------------------
(* The formatters.                                                         *)

\* root: format_news
format_news(news_list, now) ==
    IF news_list = << >> THEN NoNewsText
    ELSE LET shown == Take(news_list, FormatCap)
         IN  Header(now)
             \o Flatten([i \in 1..Len(shown) |->
                    Digits(i) \o << ".", " " >> \o shown[i].title
                    \o << "\n" >> \o << "\n" >>])
             \o << "\n" >> \o TotalOpen \o Digits(Len(news_list)) \o TotalClose

\* workflow: format_simple_news
format_simple_news(news_list, now) ==
    LET shown == Take(news_list, FormatCap)
    IN  Header(now)
        \o Flatten([i \in 1..Len(shown) |->
               Digits(i) \o << ".", " " >> \o shown[i].title \o << "\n" >>
               \o (IF Get(shown[i], "link", << >>) # << >>
                   THEN LinkMark \o shown[i].link \o << "\n" >>
                   ELSE << >>)
               \o << "\n" >>])

TitleLabel == << "U+6807", "U+9898", ":", " " >>

LinkLabel == << "U+94FE", "U+63A5", ":", " " >>

\* the "\n\n".join([...]) over its argument
RECURSIVE JoinBlank(_)
JoinBlank(parts) ==
    IF parts = << >> THEN << >>
    ELSE IF Len(parts) = 1 THEN parts[1]
    ELSE parts[1] \o << "\n", "\n" >> \o JoinBlank(Tail(parts))

\* workflow: the news_text of analyze_with_claude, over news_list[:15]
news_text(news_list) ==
    LET sent == Take(news_list, AnalyzeCap)
    IN  JoinBlank([ i \in 1..Len(sent) |->
                      TitleLabel \o sent[i].title \o << "\n" >>
                      \o LinkLabel \o sent[i].link ])

\* an optional value (os.getenv): << >> is None, << s >> is the string s
None == << >>

Some(s) == << s >>

\* Python truthiness of an optional string
Truthy(opt) == opt # None /\ opt[1] # << >>

\* response.json() succeeds and yields a dict
IsJsonObject(body) == body.json /\ body.object

\* result['content'][0]['text'] can be read
HasText(body) ==
    /\ "content" \in DOMAIN body.fields
    /\ Len(body.fields["content"]) >= 1
    /\ "text" \in DOMAIN body.fields["content"][1]

\* the content block read outside the try: an empty or text-less content
\* yields no report instead of the plain one
analyze_with_claude_unguarded(news_list, api_key, resp, now) ==
    IF ~ Truthy(api_key) THEN format_simple_news(news_list, now)
    ELSE IF resp.raised THEN format_simple_news(news_list, now)
    ELSE IF ~ IsJsonObject(resp.body) THEN format_simple_news(news_list, now)
    ELSE IF "content" \in DOMAIN resp.body.fields
         THEN IF HasText(resp.body)
              THEN resp.body.fields["content"][1]["text"]
              ELSE << >>
         ELSE format_simple_news(news_list, now)

\* workflow: analyze_with_claude.  resp is the outcome of requests.post:
\* [raised |-> TRUE] or a response with a status and a body.  A body that is
\* no JSON makes response.json() raise; a JSON value that is no dict either
\* has no 'content' member or makes the test raise; an empty content list
\* or a block without 'text' raises.  Every raise is inside the try.  The
\* status code is never read.
analyze_with_claude(news_list, api_key, resp, now) ==
    IF ~ Truthy(api_key) THEN format_simple_news(news_list, now)
    ELSE IF resp.raised THEN format_simple_news(news_list, now)
    ELSE IF ~ IsJsonObject(resp.body) THEN format_simple_news(news_list, now)
    ELSE IF "content" \in DOMAIN resp.body.fields
         THEN IF HasText(resp.body)
              THEN resp.body.fields["content"][1]["text"]
              ELSE format_simple_news(news_list, now)
         ELSE format_simple_news(news_list, now)

-----------------------------------------------------------------------------
(* The push functions.  resp is the outcome of the HTTP call.  A push is   *)
(* recorded with the content handed to the transport, the request line,    *)
(* the line logged ("ok" or "fail") and the value returned.                *)

\* root: push_to_bark
push_to_bark_root(bark_url, title, content, resp) ==
    LET base == IF bark_url # << >> /\ bark_url[Len(bark_url)] = "/"
                THEN bark_url ELSE bark_url \o << "/" >>
        body == Take(content, BarkLimitRoot)
        good == /\ ~ resp.raised
                /\ resp.status = 200
                /\ IsJsonObject(resp.body)
                /\ Get(resp.body.fields, "code", 0) = 200
    IN  [ channel |-> "bark",
          content |-> body,
          wire    |-> base \o Quote(title) \o << "/" >> \o Quote(body),
          resp    |-> resp,
          logged  |-> IF good THEN "ok" ELSE "fail",
          ret     |-> IF good THEN "True" ELSE "False" ]

\* workflow: push_to_bark; the body of the response is never read and
\* nothing is returned
push_to_bark_workflow(bark_url, title, content, resp) ==
    LET body == Take(content, BarkLimitWorkflow)
        good == ~ resp.raised /\ resp.status = 200
    IN  [ channel |-> "bark",
          content |-> body,
          wire    |-> bark_url \o << "/" >> \o Quote(title),
          resp    |-> resp,
          logged  |-> IF good THEN "ok" ELSE "fail",
          ret     |-> "None" ]

push_to_bark(v, bark_url, title, content, resp) ==
    IF v = "root" THEN push_to_bark_root(bark_url, title, content, resp)
    ELSE push_to_bark_workflow(bark_url, title, content, resp)

\* workflow: push_to_telegram; "text": content, the whole report
push_to_telegram(bot_token, chat_id, content, resp) ==
    LET good == ~ resp.raised /\ resp.status = 200
    IN  [ channel |-> "telegram",
          content |-> content,
          wire    |-> << "b", "o", "t" >> \o bot_token \o << "/" >>,
          resp    |-> resp,
          logged  |-> IF good THEN "ok" ELSE "fail",
          ret     |-> "None" ]

-----------------------------------------------------------------------------
(* The inputs of a run.                                                    *)

Variants == { "root", "workflow" }

SrcOn == [ name |-> << "s" >>, url |-> << "u" >>, enabled |-> TRUE ]

SrcOff == [ name |-> << "s" >>, url |-> << "u" >>, enabled |-> FALSE ]

\* a source without the 'enabled' key
SrcDefault == [ name |-> << "s" >>, url |-> << "u" >> ]

\* every list of up to MaxSources sources with an explicit 'enabled', and two
\* lists whose first source leaves the key out
SourceLists ==
    UNION { [1..n -> { SrcOn, SrcOff }] : n \in 0..MaxSources }
    \cup { << SrcDefault >>, << SrcDefault, SrcOff >> }

\* include "ab" (as an industry), block "c"
FiltersAB == [ industries |-> << << "a", "b" >> >>, blocked |-> << << "c" >> >> ]

\* include "z" (as a keyword), no block list: matches no item of the feeds
FiltersZ == [ keywords |-> << << "z" >> >> ]

Configs ==
    { [ filters |-> FiltersAB ] }
    \cup { [ rss_feeds |-> s ] : s \in SourceLists }
    \cup { [ rss_feeds |-> s, filters |-> f ] :
             s \in SourceLists, f \in { FiltersAB, FiltersZ } }

\* what open() and json.load() do with news_sources.json
ConfigFiles ==
    { [ ok |-> FALSE, why |-> "missing" ], [ ok |-> FALSE, why |-> "malformed" ] }
    \cup { [ ok |-> TRUE, json |-> c ] : c \in Configs }

EntryHit == [ title |-> << "a", "b" >>, link |-> << "l" >>, summary |-> << "d" >> ]

\* "ab" only across the title/summary boundary; a summary past both limits
EntrySplit == [ title |-> << "a" >>, summary |-> Fill(LongSummaryLen, "b"),
                published |-> << "1" >> ]

\* a second "ab" title, carrying the blocked "c"
EntryDup == [ title |-> << "a", "b" >>, summary |-> << "c" >> ]

\* no keyword, and a title longer than any payload bound
EntryMiss == [ title |-> Fill(LongLen, "d"), link |-> << "l" >> ]

EntryNoTitle == [ link |-> << "l" >> ]

\* MaxEntries entries: distinct titles ab, aab, ..., the last one without a
\* title
LongEntries ==
    [ i \in 1..MaxEntries |->
        IF i = MaxEntries THEN EntryNoTitle
        ELSE [ title |-> Fill(i, "a") \o << "b" >>, link |-> << "l" >> ] ]

Feeds ==
    { [ raises |-> TRUE ],
      [ raises |-> FALSE, entries |-> << >> ],
      [ raises |-> FALSE, entries |-> << EntrySplit, EntryMiss, EntryHit, EntryDup >> ],
      [ raises |-> FALSE, entries |-> << EntryMiss, EntryNoTitle >> ],
      [ raises |-> FALSE, entries |-> LongEntries ] }

NotJson == [ json |-> FALSE ]

JsonObject(f) == [ json |-> TRUE, object |-> TRUE, fields |-> f ]

Raised == [ raised |-> TRUE ]

Response(status, body) == [ raised |-> FALSE, status |-> status, body |-> body ]

ShortSummary == << "w", "w" >>

LongSummary == Fill(LongLen, "w")

\* Outcomes of the POST to the messages API: a timeout or network error;
\* a 200 with a text block; a 200 whose JSON carries no usable content; a
\* gateway error whose body is no JSON; an API error, whose body is the
\* JSON object {"type": "error", "error": ...}.
ApiResponses ==
    { Raised,
      Response(200, JsonObject([ content |-> << [ type |-> "text", text |-> ShortSummary ] >> ])),
      Response(200, JsonObject([ content |-> << [ type |-> "text", text |-> LongSummary ] >> ])),
      Response(200, JsonObject([ id |-> "msg" ])),
      Response(200, JsonObject([ content |-> << >> ])),
      Response(200, JsonObject([ content |-> << [ type |-> "tool_use" ] >> ])),
      Response(401, JsonObject([ type |-> "error" ])),
      Response(502, NotJson) }

\* Outcomes of the GET to Bark
BarkResponses ==
    { Raised,
      Response(500, NotJson),
      Response(200, NotJson),
      Response(200, JsonObject([ code |-> 400 ])),
      Response(200, JsonObject([ code |-> 200 ])) }

\* Outcomes of the POST to Telegram
TelegramResponses ==
    { Raised,
      Response(500, JsonObject([ ok |-> FALSE ])),
      Response(200, JsonObject([ ok |-> TRUE ])) }

ApiKeys == { None, Some(<< "k" >>) }

BarkUrls == { None, Some(<< "u" >>) }

\* token and chat id: neither, the token alone, both
TelegramPairs ==
    { << None, None >>, << Some(<< "t" >>), None >>,
      << Some(<< "t" >>), Some(<< "c" >>) >> }

NoEnv == [ ANTHROPIC_API_KEY |-> None, BARK_URL |-> None,
           TELEGRAM_BOT_TOKEN |-> None, TELEGRAM_CHAT_ID |-> None ]

-----------------------------------------------------------------------------
(* main().                                                                 *)

NotFormatted == [ done |-> FALSE ]

Init ==
    /\ variant \in Variants
    /\ pc = "load"
    /\ file \in ConfigFiles
    /\ config = EmptyDict
    /\ idx = 0
    /\ fetched = << >>
    /\ all_news = << >>
    /\ success_count = 0
    /\ filter_out = << >>
    /\ filtered_news = << >>
    /\ fmt = NotFormatted
    /\ report = << >>
    /\ env = NoEnv
    /\ pushes = << >>
    /\ stages = {}

\* root wraps load_config() in try/except and returns; workflow calls it
\* bare, so the exception leaves main()
LoadFailurePc(v) == IF v = "root" THEN "done" ELSE "crashed"

\* 1. load_config()
LoadConfig ==
    /\ pc = "load"
    /\ stages' = stages \cup { "load" }
    /\ IF file.ok
       THEN config' = file.json /\ pc' = "collect"
       ELSE config' = config /\ pc' = LoadFailurePc(variant)
    /\ UNCHANGED << variant, file, idx, fetched, all_news, success_count,
                    filter_out, filtered_news, fmt, report, env, pushes >>

\* 2. for source in config['rss_feeds']: the subscript raises KeyError when
\* the key is missing, outside any try in both revisions
EnterLoop ==
    /\ pc = "collect"
    /\ stages' = stages \cup { "fetch" }
    /\ IF "rss_feeds" \in DOMAIN config
       THEN idx' = 1 /\ pc' = "fetch"
       ELSE idx' = idx /\ pc' = "crashed"
    /\ UNCHANGED << variant, file, config, fetched, all_news, success_count,
                    filter_out, filtered_news, fmt, report, env, pushes >>

\* source.get('enabled', True)
Enabled(source) == Get(source, "enabled", TRUE)

\* a disabled source is passed over
SkipSource ==
    /\ pc = "fetch"
    /\ idx <= Len(config["rss_feeds"])
    /\ ~ Enabled(config["rss_feeds"][idx])
    /\ fetched' = Append(fetched, [ enabled |-> FALSE ])
    /\ idx' = idx + 1
    /\ UNCHANGED << variant, pc, file, config, all_news, success_count,
                    filter_out, filtered_news, fmt, report, env, pushes, stages >>

\* news = fetch_rss_news(source['url']); all_news.extend(news)
FetchSource ==
    /\ pc = "fetch"
    /\ idx <= Len(config["rss_feeds"])
    /\ Enabled(config["rss_feeds"][idx])
    /\ \E feed \in Feeds :
         LET news == fetch_rss_news(variant, feed)
         IN  /\ all_news' = all_news \o news
             /\ fetched' = Append(fetched,
                               [ enabled |-> TRUE, feed |-> feed, news |-> news ])
             /\ success_count' =
                  IF variant = "root" /\ news # << >>
                  THEN success_count + 1 ELSE success_count
    /\ idx' = idx + 1
    /\ UNCHANGED << variant, pc, file, config, filter_out, filtered_news, fmt,
                    report, env, pushes, stages >>

\* the early return forgotten
NoNews_Never(news) == FALSE

\* if not all_news
NoNews(news) == news = << >>

\* the loop is over and nothing was collected: return
ReturnNoNews ==
    /\ pc = "fetch"
    /\ idx > Len(config["rss_feeds"])
    /\ NoNews(all_news)
    /\ pc' = "done"
    /\ UNCHANGED << variant, file, config, idx, fetched, all_news,
                    success_count, filter_out, filtered_news, fmt, report, env,
                    pushes, stages >>

\* root: if not filtered_news: filtered_news = all_news[:10]
\* workflow: the filter's result is used as it is
Fallback(v, news, out) ==
    IF v = "root" /\ out = << >> THEN Take(news, FallbackCount) ELSE out

\* 3. filtered_news = filter_news(all_news, config), with root's fallback
FilterNews ==
    /\ pc = "fetch"
    /\ idx > Len(config["rss_feeds"])
    /\ ~ NoNews(all_news)
    /\ stages' = stages \cup { "filter" }
    /\ filter_out' = filter_news(variant, all_news, config)
    /\ filtered_news' = Fallback(variant, all_news, filter_out')
    /\ pc' = "format"
    /\ UNCHANGED << variant, file, config, idx, fetched, all_news,
                    success_count, fmt, report, env, pushes >>

\* 4. root: report = format_news(filtered_news)
FormatRoot ==
    /\ pc = "format"
    /\ variant = "root"
    /\ stages' = stages \cup { "format" }
    /\ \E now \in Clock :
         /\ fmt' = [ done |-> TRUE, now |-> now, requested |-> FALSE ]
         /\ report' = format_news(filtered_news, now)
    /\ pc' = "env"
    /\ UNCHANGED << variant, file, config, idx, fetched, all_news,
                    success_count, filter_out, filtered_news, env, pushes >>

\* 4. workflow: report = analyze_with_claude(filtered_news), no usable key
AnalyzeNoKey ==
    /\ pc = "format"
    /\ variant = "workflow"
    /\ stages' = stages \cup { "format" }
    /\ \E now \in Clock, key \in ApiKeys :
         /\ ~ Truthy(key)
         /\ env' = [ env EXCEPT !["ANTHROPIC_API_KEY"] = key ]
         /\ fmt' = [ done |-> TRUE, now |-> now, requested |-> FALSE ]
         /\ report' = analyze_with_claude(filtered_news, key, Raised, now)
    /\ pc' = "env"
    /\ UNCHANGED << variant, file, config, idx, fetched, all_news,
                    success_count, filter_out, filtered_news, pushes >>

\* 4. workflow: report = analyze_with_claude(filtered_news), request made
AnalyzeWithKey ==
    /\ pc = "format"
    /\ variant = "workflow"
    /\ stages' = stages \cup { "format" }
    /\ \E now \in Clock, key \in ApiKeys, resp \in ApiResponses :
         /\ Truthy(key)
         /\ env' = [ env EXCEPT !["ANTHROPIC_API_KEY"] = key ]
         /\ fmt' = [ done |-> TRUE, now |-> now, requested |-> TRUE,
                     prompt |-> news_text(filtered_news), resp |-> resp ]
         /\ report' = analyze_with_claude(filtered_news, key, resp, now)
    /\ pc' = "env"
    /\ UNCHANGED << variant, file, config, idx, fetched, all_news,
                    success_count, filter_out, filtered_news, pushes >>

\* 5. root: bark_url = os.getenv('BARK_URL'); if not bark_url: return
ReadEnvRoot ==
    /\ pc = "env"
    /\ variant = "root"
    /\ stages' = stages \cup { "push" }
    /\ \E url \in BarkUrls :
         /\ env' = [ env EXCEPT !["BARK_URL"] = url ]
         /\ pc' = IF Truthy(url) THEN "bark" ELSE "done"
    /\ UNCHANGED << variant, file, config, idx, fetched, all_news,
                    success_count, filter_out, filtered_news, fmt, report,
                    pushes >>

\* 5. workflow: the three os.getenv calls
ReadEnvWorkflow ==
    /\ pc = "env"
    /\ variant = "workflow"
    /\ stages' = stages \cup { "push" }
    /\ \E url \in BarkUrls, tg \in TelegramPairs :
         env' = [ env EXCEPT !["BARK_URL"] = url,
                             !["TELEGRAM_BOT_TOKEN"] = tg[1],
                             !["TELEGRAM_CHAT_ID"] = tg[2] ]
    /\ pc' = "bark"
    /\ UNCHANGED << variant, file, config, idx, fetched, all_news,
                    success_count, filter_out, filtered_news, fmt, report,
                    pushes >>

\* where main() goes after the Bark branch
AfterBark(v) == IF v = "root" THEN "done" ELSE "telegram"

\* push_to_bark(bark_url, title, report)
PushBark ==
    /\ pc = "bark"
    /\ Truthy(env["BARK_URL"])
    /\ \E resp \in BarkResponses :
         pushes' = Append(pushes,
             push_to_bark(variant, env["BARK_URL"][1], TitleText, report, resp))
    /\ pc' = AfterBark(variant)
    /\ UNCHANGED << variant, file, config, idx, fetched, all_news,
                    success_count, filter_out, filtered_news, fmt, report, env,
                    stages >>

\* workflow: Bark is not configured
SkipBark ==
    /\ pc = "bark"
    /\ ~ Truthy(env["BARK_URL"])
    /\ pc' = AfterBark(variant)
    /\ UNCHANGED << variant, file, config, idx, fetched, all_news,
                    success_count, filter_out, filtered_news, fmt, report, env,
                    pushes, stages >>

\* if tg_token and tg_chat
TelegramConfigured(e) ==
    Truthy(e["TELEGRAM_BOT_TOKEN"]) /\ Truthy(e["TELEGRAM_CHAT_ID"])

\* push_to_telegram(tg_token, tg_chat, report)
PushTelegram ==
    /\ pc = "telegram"
    /\ TelegramConfigured(env)
    /\ \E resp \in TelegramResponses :
         pushes' = Append(pushes,
             push_to_telegram(env["TELEGRAM_BOT_TOKEN"][1],
                              env["TELEGRAM_CHAT_ID"][1], report, resp))
    /\ pc' = "done"
    /\ UNCHANGED << variant, file, config, idx, fetched, all_news,
                    success_count, filter_out, filtered_news, fmt, report, env,
                    stages >>

\* workflow: Telegram is not configured
SkipTelegram ==
    /\ pc = "telegram"
    /\ ~ TelegramConfigured(env)
    /\ pc' = "done"
    /\ UNCHANGED << variant, file, config, idx, fetched, all_news,
                    success_count, filter_out, filtered_news, fmt, report, env,
                    pushes, stages >>

Next ==
    \/ LoadConfig
    \/ EnterLoop
    \/ SkipSource
    \/ FetchSource
    \/ ReturnNoNews
    \/ FilterNews
    \/ FormatRoot
    \/ AnalyzeNoKey
    \/ AnalyzeWithKey
    \/ ReadEnvRoot
    \/ ReadEnvWorkflow
    \/ PushBark
    \/ SkipBark
    \/ PushTelegram
    \/ SkipTelegram

Spec == Init /\ [][Next]_vars

-----------------------------------------------------------------------------
(* filter_news on its own: a call with any list and any filter             *)
(* configuration of the sets below, in either revision.                    *)

\* an item as fetch_rss_news builds it
Item(title, summary) ==
    [ title |-> title, link |-> << >>, summary |-> summary, published |-> << >> ]

SmallItems ==
    { Item(t, m) : t \in { << "a" >>, << "a", "b" >>, << "d" >> },
                   m \in { << >>, << "b" >>, << "c" >> } }

\* n items with the distinct titles ab, aab, aaab, ...
Distinct(n) == [ i \in 1..n |-> Item(Fill(i, "a") \o << "b" >>, << >>) ]

FilterInputs ==
    UNION { [1..n -> SmallItems] : n \in 0..MaxListLen }
    \cup { Distinct(n) : n \in (FilterCap - 1)..BigListLen }
    \cup { Distinct(BigListLen) \o Distinct(BigListLen) }

FilterConfigs ==
    { EmptyDict,
      [ filters |-> [ industries |-> << >>, keywords |-> << >>,
                      blocked |-> << << "c" >> >> ] ],
      [ filters |-> FiltersAB ],
      [ filters |-> [ industries |-> << << "d" >> >>,
                      keywords |-> << << "a" >> >>,
                      blocked |-> << << "a", "b" >>, << "c" >> >> ] ],
      [ filters |-> [ keywords |-> << << >> >> ] ] }

InitFilter ==
    /\ variant \in Variants
    /\ pc = "call"
    /\ file = [ ok |-> TRUE, json |-> EmptyDict ]
    /\ config \in FilterConfigs
    /\ idx = 0
    /\ fetched = << >>
    /\ all_news \in FilterInputs
    /\ success_count = 0
    /\ filter_out = << >>
    /\ filtered_news = << >>
    /\ fmt = NotFormatted
    /\ report = << >>
    /\ env = NoEnv
    /\ pushes = << >>
    /\ stages = {}

\* filter_news(news_list, config) with news_list = all_news
CallFilter ==
    /\ pc = "call"
    /\ filter_out' = filter_news(variant, all_news, config)
    /\ pc' = "returned"
    /\ UNCHANGED << variant, file, config, idx, fetched, all_news,
                    success_count, filtered_news, fmt, report, env, pushes,
                    stages >>

SpecFilter == InitFilter /\ [][CallFilter]_vars

-----------------------------------------------------------------------------
(* Properties.                                                             *)

Range(q) == { q[i] : i \in 1..Len(q) }

\* main() is past its formatting step
Formatted == fmt.done

\* C1: whenever the formatter ran after filter_news returned nothing, the
\* list handed to the formatter is the first 10 items of all_news and the
\* report is not empty.
C1_FallbackToPrefix ==
    (Formatted /\ filter_out = << >>) =>
        /\ all_news # << >>
        /\ filtered_news = Take(all_news, FallbackCount)
        /\ filtered_news # << >>
        /\ report # << >>

\* the outcomes the dispatcher contract names as failures: a network
\* exception, a status other than 200, a body that cannot be parsed
C2_Failing(resp) ==
    resp.raised \/ resp.status # 200 \/ ~ resp.body.json

C2_Attempted(channel) == \E i \in 1..Len(pushes) : pushes[i].channel = channel

\* C2: no push raises out of main(); a push whose outcome is a failure is
\* reported as failed; and when the run is over every configured channel
\* has been attempted, whatever happened to the other.
C2_PushIsolation ==
    /\ ("push" \in stages) => pc # "crashed"
    /\ \A i \in 1..Len(pushes) :
         C2_Failing(pushes[i].resp) => pushes[i].logged = "fail"
    /\ (pc = "done" /\ "push" \in stages) =>
         /\ Truthy(env["BARK_URL"]) => C2_Attempted("bark")
         /\ (variant = "workflow" /\ TelegramConfigured(env))
               => C2_Attempted("telegram")

\* the loop over the sources is over
C3_LoopOver ==
    /\ file.ok
    /\ "rss_feeds" \in DOMAIN file.json
    /\ pc \notin { "load", "collect", "fetch" }

\* every enabled source contributed nothing
C3_AllZero == \A i \in 1..Len(fetched) : fetched[i].enabled => fetched[i].news = << >>

\* C3: when every enabled source contributed zero items, main() has
\* returned once the loop is over: the filter, format and push stages were
\* never entered and no push was made.
C3_NoNewsNoPush ==
    (C3_LoopOver /\ C3_AllZero) =>
        /\ pc = "done"
        /\ stages \cap { "filter", "format", "push" } = {}
        /\ ~ Formatted
        /\ pushes = << >>

\* two sources were tried, the first raised, nothing came in, main returned
C3_Witness ==
    /\ pc = "done"
    /\ Len(fetched) >= 2
    /\ fetched[1].enabled /\ fetched[1].feed.raises
    /\ fetched[2].enabled /\ ~ fetched[2].feed.raises
    /\ all_news = << >>

\* the items of list that pass the keyword rules as the specification words
\* them: every item when no include-keyword is set, else those whose
\* title+summary holds an include-keyword and no block-keyword
C4_Kept(list, cfg) ==
    IF Keywords(cfg) = << >> THEN list
    ELSE SelectSeq(list, LAMBDA n :
            /\ \E k \in Range(Keywords(cfg)) : Contains(n.title \o n.summary, k)
            /\ \A b \in Range(Blocked(cfg)) : ~ Contains(n.title \o n.summary, b))

\* the items of list that are the first with their title, in list order
RECURSIVE C4_FirstOfTitle(_, _)
C4_FirstOfTitle(list, i) ==
    IF i > Len(list) THEN << >>
    ELSE (IF \E j \in 1..(i - 1) : list[j].title = list[i].title
          THEN << >> ELSE << list[i] >>)
         \o C4_FirstOfTitle(list, i + 1)

\* C4: the output of filter_news holds each title at most once, and it is
\* made of the first item of each title among those that pass the keyword
\* rules, in input order.
C4_DedupFirstOccurrence ==
    pc = "returned" =>
        /\ \A i, j \in 1..Len(filter_out) :
             i # j => filter_out[i].title # filter_out[j].title
        /\ filter_out =
             Take(C4_FirstOfTitle(C4_Kept(all_news, config), 1), Len(filter_out))

C5_Includes(n, cfg) ==
    \E k \in Range(Keywords(cfg)) : Contains(n.title \o n.summary, k)

C5_Blocks(n, cfg) ==
    \E b \in Range(Blocked(cfg)) : Contains(n.title \o n.summary, b)

\* C5: with a non-empty include-keyword set, every item of the output
\* holds an include-keyword and no block-keyword in title+summary; an input
\* item that holds a block-keyword, or no include-keyword, is not in the
\* output.
C5_KeywordRules ==
    (pc = "returned" /\ Keywords(config) # << >>) =>
        /\ \A n \in Range(filter_out) :
             n \in Range(all_news) /\ C5_Includes(n, config) /\ ~ C5_Blocks(n, config)
        /\ \A n \in Range(all_news) :
             (C5_Blocks(n, config) \/ ~ C5_Includes(n, config))
                => n \notin Range(filter_out)

\* a call whose input holds an item matching both lists, an item matching
\* no include-keyword and an item that passes
C5_Witness ==
    /\ pc = "returned"
    /\ Keywords(config) # << >>
    /\ Blocked(config) # << >>
    /\ \E n \in Range(all_news) : C5_Includes(n, config) /\ C5_Blocks(n, config)
    /\ \E n \in Range(all_news) : ~ C5_Includes(n, config)
    /\ filter_out # << >>

\* the payload bound of a push: the channel's slice where the revision has
\* one, else the largest bound the revisions apply
C6_Bound(push) ==
    IF push.channel = "bark" /\ variant = "workflow" THEN BarkLimitWorkflow
    ELSE BarkLimitRoot

\* C6: the content handed to a channel is the report cut to the channel's
\* payload bound, and is never longer than the bound.
C6_TruncatedBeforeDispatch ==
    \A i \in 1..Len(pushes) :
        /\ Len(pushes[i].content) <= C6_Bound(pushes[i])
        /\ pushes[i].content = Take(report, C6_Bound(pushes[i]))

\* the summarization path failed: no credential, the request raised, a
\* status outside 2xx, a body that is no JSON object, or one without a
\* first content block carrying text
C7_ApiFailed ==
    /\ variant = "workflow"
    /\ Formatted
    /\ \/ ~ Truthy(env["ANTHROPIC_API_KEY"])
       \/ fmt.resp.raised
       \/ fmt.resp.status \notin 200..299
       \/ ~ fmt.resp.body.json
       \/ ~ fmt.resp.body.object
       \/ "content" \notin DOMAIN fmt.resp.body.fields
       \/ fmt.resp.body.fields["content"] = << >>
       \/ "text" \notin DOMAIN fmt.resp.body.fields["content"][1]

C8_Cap == IF variant = "root" THEN CapRoot ELSE CapWorkflow

\* the source failed: the parse raised, or one of the entries that are read
\* has no title
C8_Failed(feed) ==
    \/ feed.raises
    \/ \E j \in 1..Len(feed.entries) : j <= C8_Cap /\ "title" \notin DOMAIN feed.entries[j]

\* C8: a failed source contributes an empty list and does not stop the
\* run; a source that did not fail contributes its first entries, at most
\* the cap, in feed order; all_news is the concatenation of the
\* contributions in source order; and once the loop is left every
\* configured source has been visited.
C8_FetchIsolation ==
    /\ \A i \in 1..Len(fetched) :
         fetched[i].enabled =>
            IF C8_Failed(fetched[i].feed)
            THEN fetched[i].news = << >>
            ELSE /\ Len(fetched[i].news) <= C8_Cap
                 /\ Len(fetched[i].news) = Min(C8_Cap, Len(fetched[i].feed.entries))
                 /\ \A j \in 1..Len(fetched[i].news) :
                      fetched[i].news[j].title = fetched[i].feed.entries[j].title
    /\ all_news = Flatten([ i \in 1..Len(fetched) |->
                              IF fetched[i].enabled THEN fetched[i].news ELSE << >> ])
    /\ pc = "crashed" => fetched = << >>
    /\ C3_LoopOver => Len(fetched) = Len(config["rss_feeds"])

\* the first source raised, the second delivered up to the cap from a feed
\* holding more, and the run went on to its end
C8_Witness ==
    /\ pc = "done"
    /\ Len(fetched) = 2
    /\ fetched[1].enabled /\ fetched[1].feed.raises
    /\ fetched[2].enabled /\ ~ fetched[2].feed.raises
    /\ Len(fetched[2].feed.entries) > C8_Cap
    /\ Len(all_news) = C8_Cap

\* the configuration could not be loaded or lacks rss_feeds
C9_ConfigUnusable == ~ file.ok \/ "rss_feeds" \notin DOMAIN file.json

\* C9: when the configuration fails to load, or lacks rss_feeds, main()
\* returns normally: no exception leaves it, and nothing is fetched,
\* formatted or pushed.
C9_ConfigFailureReturns ==
    C9_ConfigUnusable =>
        /\ pc \in { "load", "collect", "done" }
        /\ fetched = << >>
        /\ ~ Formatted
        /\ pushes = << >>

\* the cap of the revision's filter for this configuration, as specified
C10_Cap == IF Keywords(config) = << >> THEN PassThroughCap ELSE FilterCap

\* C10: the output of filter_news holds at most 20 items when no
\* include-keyword is set and at most 15 otherwise, and it is a prefix of
\* the items that pass the keyword rules (first of each title, outside
\* root's pass-through).
C10_BoundedPrefix ==
    pc = "returned" =>
        /\ Len(filter_out) <= C10_Cap
        /\ \/ filter_out = Take(C4_FirstOfTitle(C4_Kept(all_news, config), 1), C10_Cap)
           \/ filter_out = Take(C4_Kept(all_news, config), C10_Cap)

=============================================================================
